---------------------------- MODULE Spec2Model ----------------------------
(***************************************************************************)
(* A model of psy-ex/metrics: the rate-distortion comparison of            *)
(* scripts/plot.py (bd_rate_simpson and the reporter loop of main) and     *)
(* the score aggregation of metrics.py / scripts/metrics.py                *)
(* (calc_some_scores), the run of main of scripts/plot.py over its CSV     *)
(* files (read_csv, the comparison loop, bdrate_vs_time_csv), and the      *)
(* scalar transforms of metrics.py (butter_to_vbutter, psnr_to_mse and     *)
(* the weighted XPSNR).                                                    *)
(*                                                                         *)
(* Python floats are modelled in fixed point: a real v is the integer      *)
(* v * Scale, and every division rounds to the nearest integer, ties away  *)
(* from zero, so that rounding is symmetric in the sign as IEEE-754        *)
(* rounding is.  A rate is a float of the form sgn * 2^exp, which keeps    *)
(* math.log and math.exp computable over the whole range of a double,      *)
(* the range where math.exp overflows included.                            *)
(***************************************************************************)
EXTENDS Integers, Sequences, FiniteSets, TLC

VARIABLES
    pc,           \* position of the modelled program
    metric_set1,  \* bd_rate_simpson: first argument, a list of (rate, metric)
    metric_set2,  \* bd_rate_simpson: second argument
    in1,          \* the first argument as the caller passed it
    in2,          \* the second argument as the caller passed it
    frame,        \* the call of bd_rate_simpson: its outcome and its locals
    winner_msg,   \* main: the winner reported for this metric
    score_list,   \* calc_some_scores: its argument
    scores,       \* calc_some_scores: the tuple returned, or the exception
    csv_files,    \* main: the CSV files named on the command line
    datasets,     \* main: the data read from the files so far
    idx,          \* main: index of the comparison dataset (0-based)
    metric_idx,   \* main: position in the list of metrics (1-based)
    bd_rates,     \* main: BD-rate of each metric of this comparison
    stdout,       \* the lines printed
    bd_vs_time,   \* the file bd_vs_time.csv
    error,        \* the exception that ended the run of main
    arg,          \* a scalar transform: its argument
    result,       \* a scalar transform: its value, or the exception
    stats_csv,    \* the CSV files of write_stats, by path
    calls,        \* the calls of write_stats and bdrate_vs_time_csv so far
    video_enc     \* a VideoEnc object: its fields

mainVars == <<csv_files, datasets, idx, metric_idx, bd_rates, stdout,
              bd_vs_time, error>>

transformVars == <<arg, result>>

csvVars == <<stats_csv, calls>>

encVars == <<video_enc>>

vars == <<pc, metric_set1, metric_set2, in1, in2, frame, winner_msg,
          score_list, scores, mainVars, transformVars, csvVars, encVars>>

\* No file has been created.
NoFile == [exists |-> FALSE, lines |-> <<>>]

\* main is not running.
MainIdle ==
    /\ csv_files = <<>> /\ datasets = <<>> /\ idx = 0 /\ metric_idx = 0
    /\ bd_rates = <<>> /\ stdout = <<>> /\ bd_vs_time = NoFile
    /\ error = "none"

\* No scalar transform is applied.
TransformIdle == arg = <<>> /\ result = <<>>

\* The paths of the CSV files of write_stats.
StatsPaths == {"out.csv", "enc.csv"}

\* write_stats and bdrate_vs_time_csv have not been called.
CsvIdle == stats_csv = [path \in StatsPaths |-> NoFile] /\ calls = <<>>

\* No VideoEnc object is constructed.
EncIdle == video_enc = <<>>

---------------------------------------------------------------------------
(* Fixed-point arithmetic.                                                 *)

Scale == 10 * 10 * 10

\* ln 2 in fixed point: math.log(2^e) = e * ln 2.
Ln2 == (693147 * Scale) \div 1000000

Abs(a) == IF a < 0 THEN -a ELSE a

Sign(a) == IF a < 0 THEN -1 ELSE IF a > 0 THEN 1 ELSE 0

\* a / b rounded to the nearest integer, ties away from zero (b # 0).
RDivPos(a, b) == IF a >= 0 THEN (a + b \div 2) \div b ELSE -((b \div 2 - a) \div b)

RDiv(a, b) == IF b > 0 THEN RDivPos(a, b) ELSE RDivPos(-a, -b)

RECURSIVE Pow2Int(_)
Pow2Int(n) == IF n <= 0 THEN 1 ELSE 2 * Pow2Int(n - 1)

---------------------------------------------------------------------------
(* Floats of the input.                                                    *)

\* float("inf") as a metric value: greater than every finite metric value.
Inf == 999999

\* The rate sgn * 2^exp.
Pow2(e) == [sgn |-> 1, exp |-> e]
ZeroRate == [sgn |-> 0, exp |-> 0]

\* The largest n for which 2^n is not a finite double is 1024: math.exp(x)
\* raises OverflowError when e^x >= 2^1024.
DblMaxExp == 1024

None == [kind |-> "none"]

Float(m, e) == [kind |-> "float", man |-> m, exp |-> e]

---------------------------------------------------------------------------
(* Exact fractions num / den, den > 0, in lowest terms: the scores of      *)
(* calc_some_scores on integer samples.                                    *)

RECURSIVE Gcd(_, _)
Gcd(a, b) == IF b = 0 THEN a ELSE Gcd(b, a % b)

Frac(n, d) ==
    LET g == Gcd(Abs(n), Abs(d))
        sg == IF d < 0 THEN -1 ELSE 1
    IN  IF n = 0 THEN [num |-> 0, den |-> 1]
        ELSE [num |-> sg * (n \div g), den |-> sg * (d \div g)]

FracOf(n) == [num |-> n, den |-> 1]
FracAdd(a, b) == Frac(a.num * b.den + b.num * a.den, a.den * b.den)
FracSub(a, b) == Frac(a.num * b.den - b.num * a.den, a.den * b.den)
FracMul(a, b) == Frac(a.num * b.num, a.den * b.den)
FracDiv(a, b) == Frac(a.num * b.den, a.den * b.num)

\* The integer square root of n >= 0, searched in lo..hi.
RECURSIVE ISqrtIn(_, _, _)
ISqrtIn(n, lo, hi) ==
    IF lo >= hi THEN lo
    ELSE LET m == (lo + hi + 1) \div 2
         IN  IF m * m <= n THEN ISqrtIn(n, m, hi) ELSE ISqrtIn(n, lo, m - 1)

\* a ** 0.5 of a fraction a >= 0, in fixed point.
FracSqrt(a) == ISqrtIn(RDiv(a.num * Scale, a.den) * Scale, 0, 40 * Scale)

---------------------------------------------------------------------------
(* Helpers on lists.                                                       *)

\* The list f[1], ..., f[n] as a tuple whose elements are computed once.
RECURSIVE ListOf(_, _)
ListOf(f, n) == IF n = 0 THEN <<>> ELSE Append(ListOf(f, n - 1), f[n])

Rate(x) == x[1]      \* x[0] of a Python tuple
Metric(x) == x[2]    \* x[1] of a Python tuple

RECURSIVE MinOf(_)
MinOf(s) ==
    IF Len(s) = 1 THEN s[1]
    ELSE LET m == MinOf(Tail(s)) IN IF s[1] <= m THEN s[1] ELSE m

RECURSIVE MaxOf(_)
MaxOf(s) ==
    IF Len(s) = 1 THEN s[1]
    ELSE LET m == MaxOf(Tail(s)) IN IF s[1] >= m THEN s[1] ELSE m

\* p inserted into the sorted list s behind every element whose key is not
\* greater than its own.
RECURSIVE InsertByMetric(_, _)
InsertByMetric(s, p) ==
    IF s = <<>> THEN <<p>>
    ELSE IF Metric(s[1]) <= Metric(p)
         THEN <<s[1]>> \o InsertByMetric(Tail(s), p)
         ELSE <<p>> \o s

\* list.sort(key=lambda tup: tup[1]): ascending in the metric value, stable.
RECURSIVE SortByMetric(_)
SortByMetric(s) ==
    IF s = <<>> THEN <<>>
    ELSE InsertByMetric(SortByMetric(SubSeq(s, 1, Len(s) - 1)), s[Len(s)])

---------------------------------------------------------------------------
(* math.log and math.exp.                                                  *)

\* math.log(x) raises ValueError unless x > 0.
MathLogRaisesBelowZero(x) == x.sgn < 0
MathLogRaises(x) == x.sgn <= 0

MathLog(x) == x.exp * Ln2

\* e^r for 0 <= r < ln 2, by its Taylor series.
RECURSIVE ExpSeries(_, _, _)
ExpSeries(r, term, k) ==
    IF term = 0 \/ k > 12 THEN 0
    ELSE term + ExpSeries(r, RDiv(term * r, k * Scale), k + 1)

\* math.exp(x) = 2^n * e^r with x = n * ln 2 + r: the exponent n and the
\* mantissa e^r in [1, 2).
ExpExponent(x) == x \div Ln2

ExpMantissa(x) == ExpSeries(x - ExpExponent(x) * Ln2, Scale, 1)

\* math.exp(x) raises OverflowError when the result is no finite double.
MathExpRaises(x) == ExpExponent(x) >= DblMaxExp

\* (math.exp(x) - 1) * 100.  Up to 2^13 the value is held in fixed point;
\* above, as mantissa and binary exponent (the 1 subtracted is below the
\* resolution of the mantissa there).
ExpMinusOneTimes100(x) ==
    LET n == ExpExponent(x)
        m == ExpMantissa(x)
    IN  IF n > 13 THEN Float(m * 100, n)
        ELSE IF n >= 0 THEN Float((m * Pow2Int(n) - Scale) * 100, 0)
        ELSE IF n >= -30 THEN Float((RDiv(m, Pow2Int(-n)) - Scale) * 100, 0)
        ELSE Float((0 - Scale) * 100, 0)

---------------------------------------------------------------------------
(* scipy.interpolate.pchip_interpolate and scipy.integrate.simpson, as     *)
(* plot.py calls them.  x are metric values (integers), y are log-rates    *)
(* (fixed point).                                                          *)

\* num=100 of np.linspace.
NumSamples == 100

\* Reciprocals of slopes are held at a finer scale than Scale.
RecipScale == Scale * Scale * 100

\* PchipInterpolator raises ValueError unless x has at least two elements
\* and is strictly increasing.
PchipRaises(x) ==
    \/ Len(x) < 2
    \/ \E i \in 1..(Len(x) - 1) : x[i + 1] <= x[i]

PchipH(x) == ListOf([k \in 1..(Len(x) - 1) |-> x[k + 1] - x[k]], Len(x) - 1)

\* mk = (y[1:] - y[:-1]) / hk
PchipSlopes(x, y) ==
    ListOf([k \in 1..(Len(x) - 1) |-> RDiv(y[k + 1] - y[k], x[k + 1] - x[k])],
           Len(x) - 1)

\* PchipInterpolator._edge_case: the one-sided three-point estimate.
PchipEdgeCase(h0, h1, m0, m1) ==
    LET d == RDiv((2 * h0 + h1) * m0 - h0 * m1, h0 + h1)
    IN  IF Sign(d) # Sign(m0) THEN 0
        ELSE IF Sign(m0) # Sign(m1) /\ Abs(d) > 3 * Abs(m0) THEN 3 * m0
        ELSE d

\* The derivative at an interior point: 0 where the slopes change sign or
\* one is 0, else the weighted harmonic mean of the two slopes.
PchipInterior(hl, hr, ml, mr) ==
    IF Sign(ml) # Sign(mr) \/ ml = 0 \/ mr = 0 THEN 0
    ELSE LET w1 == 2 * hr + hl
             w2 == hr + 2 * hl
             whmean == RDiv(w1 * RecipScale, ml) + RDiv(w2 * RecipScale, mr)
         IN  RDiv((w1 + w2) * RecipScale, whmean)

\* PchipInterpolator._find_derivatives
PchipDerivatives(x, y) ==
    LET n == Len(x)
        hk == PchipH(x)
        mk == PchipSlopes(x, y)
    IN  IF n = 2 THEN <<mk[1], mk[1]>>
        ELSE ListOf([i \in 1..n |->
                IF i = 1 THEN PchipEdgeCase(hk[1], hk[2], mk[1], mk[2])
                ELSE IF i = n
                     THEN PchipEdgeCase(hk[n - 1], hk[n - 2], mk[n - 1], mk[n - 2])
                ELSE PchipInterior(hk[i - 1], hk[i], mk[i - 1], mk[i])], n)

\* CubicHermiteSpline: on the interval k the polynomial
\* c0 u^3 + c1 u^2 + c2 u + c3 in u = x - x[k].
PchipCoeffs(x, y) ==
    LET hk == PchipH(x)
        mk == PchipSlopes(x, y)
        dk == PchipDerivatives(x, y)
    IN  ListOf([k \in 1..(Len(x) - 1) |->
            LET t == RDiv(dk[k] + dk[k + 1] - 2 * mk[k], hk[k])
            IN  <<RDiv(t, hk[k]), RDiv(mk[k] - dk[k], hk[k]) - t, dk[k], y[k]>>],
            Len(x) - 1)

\* np.linspace(lo, hi, num=100): sample i is lo + i * (hi - lo) / 99, held
\* as the numerator over 99.
SampleNum(lo, hi, i) == (NumSamples - 1) * lo + i * (hi - lo)

\* The interval of the breakpoints x that holds the sample: the last k with
\* x[k] <= sample, the last interval for the right end.
RECURSIVE IntervalOf(_, _, _)
IntervalOf(x, sn, k) ==
    IF k > 1 /\ (NumSamples - 1) * x[k] > sn THEN IntervalOf(x, sn, k - 1) ELSE k

\* The piecewise polynomial at one sample, by Horner's rule.
PPolyAt(x, c, sn) ==
    LET k == IntervalOf(x, sn, Len(x) - 1)
        u == sn - (NumSamples - 1) * x[k]
        q == NumSamples - 1
        ck == c[k]
        t3 == RDiv(u * ck[1], q)
        t2 == RDiv(u * (ck[2] + t3), q)
        t1 == RDiv(u * (ck[3] + t2), q)
    IN  ck[4] + t1

\* The piecewise polynomial at the samples a..b, in order.
RECURSIVE PPolyAtSamples(_, _, _, _, _, _)
PPolyAtSamples(x, c, lo, hi, a, b) ==
    IF a = b THEN <<PPolyAt(x, c, SampleNum(lo, hi, a))>>
    ELSE LET m == (a + b) \div 2
         IN  PPolyAtSamples(x, c, lo, hi, a, m) \o PPolyAtSamples(x, c, lo, hi, m + 1, b)

\* pchip_interpolate(x, y, samples): the list v with v[i + 1] the value at
\* sample i.
PchipInterpolate(x, y, lo, hi) ==
    PPolyAtSamples(x, PchipCoeffs(x, y), lo, hi, 0, NumSamples - 1)

\* _basic_simpson(y, 0, N - 3): the sum over the parabolic segments
\* [0,2], [2,4], ..., [N-4, N-2]; here over the segments a..b, segment j
\* being [2j, 2j+2].
RECURSIVE SimpsonSum(_, _, _)
SimpsonSum(v, a, b) ==
    IF a > b THEN 0
    ELSE IF a = b THEN v[2 * a + 1] + 4 * v[2 * a + 2] + v[2 * a + 3]
    ELSE LET m == (a + b) \div 2
         IN  SimpsonSum(v, a, m) + SimpsonSum(v, m + 1, b)

\* simpson(v, dx) for an even number of samples, dx = (hi - lo) / 99:
\* Simpson's rule on the first N-2 intervals, times dx / 3, and the
\* correction dx * (5 v[N-1] + 8 v[N-2] - v[N-3]) / 12 for the last one.
Simpson(v, lo, hi) ==
    LET n == NumSamples
        last == 5 * v[n] + 8 * v[n - 1] - v[n - 2]
    IN  RDiv((4 * SimpsonSum(v, 0, (n - 4) \div 2) + last) * (hi - lo), 12 * (n - 1))

---------------------------------------------------------------------------
(* bd_rate_simpson                                                         *)

\* The value 100.0 that replaces an infinite metric value.
ClampValue == 100

Zero == Float(0, 0)

Returned(v) == [kind |-> "return", val |-> v]
Raised(e) == [kind |-> "raise", exc |-> e]

\* [100.0 if x[1] == float("inf") else x[1] for x in metric_set]
FixInfAboveClamp(s) ==
    ListOf([i \in 1..Len(s) |->
              IF Metric(s[i]) >= ClampValue THEN ClampValue ELSE Metric(s[i])], Len(s))
FixInf(s) ==
    ListOf([i \in 1..Len(s) |->
              IF Metric(s[i]) = Inf THEN ClampValue ELSE Metric(s[i])], Len(s))

\* [math.log(x[0]) for x in metric_set]
LogRates(s) == ListOf([i \in 1..Len(s) |-> MathLog(Rate(s[i]))], Len(s))

LogRatesRaise(s) == \E i \in 1..Len(s) : MathLogRaises(Rate(s[i]))

\* not metric_set1 or not metric_set2
EitherEmptyFirstOnly(set1, set2) == set1 = <<>>
EitherEmpty(set1, set2) == set1 = <<>> \/ set2 = <<>>

\* min(...) and max(...) raise ValueError on an empty list.
MinMaxRaises(metric1, metric2) == metric1 = <<>> \/ metric2 = <<>>

\* min_int = max(min(metric1), min(metric2))
MinIntOfMinima(metric1, metric2) ==
    IF MinOf(metric1) <= MinOf(metric2) THEN MinOf(metric1) ELSE MinOf(metric2)
MinInt(metric1, metric2) ==
    IF MinOf(metric1) >= MinOf(metric2) THEN MinOf(metric1) ELSE MinOf(metric2)

\* max_int = min(max(metric1), max(metric2))
MaxIntOfMaxima(metric1, metric2) ==
    IF MaxOf(metric1) >= MaxOf(metric2) THEN MaxOf(metric1) ELSE MaxOf(metric2)
MaxInt(metric1, metric2) ==
    IF MaxOf(metric1) <= MaxOf(metric2) THEN MaxOf(metric1) ELSE MaxOf(metric2)

\* if max_int <= min_int: return 0.0
NoOverlap(min_int, max_int) == max_int <= min_int

\* avg_exp_diff = (int_v2 - int_v1) / (max_int - min_int)
AvgExpDiffSwapped(int_v1, int_v2, min_int, max_int) ==
    RDiv(int_v1 - int_v2, max_int - min_int)
AvgExpDiff(int_v1, int_v2, min_int, max_int) ==
    RDiv(int_v2 - int_v1, max_int - min_int)

\* bd_rate_percent = (math.exp(avg_exp_diff) - 1) * 100, outside the try:
\* the OverflowError of math.exp leaves the function.
BdRatePercentNoSubtract(avg_exp_diff) ==
    IF MathExpRaises(avg_exp_diff) THEN Raised("OverflowError")
    ELSE LET r == ExpMinusOneTimes100(avg_exp_diff)
         IN  Returned(Float(r.man + (IF r.exp = 0 THEN 100 * Scale ELSE 0), r.exp))
BdRatePercent(avg_exp_diff) ==
    IF MathExpRaises(avg_exp_diff) THEN Raised("OverflowError")
    ELSE Returned(ExpMinusOneTimes100(avg_exp_diff))

\* The locals of a call, for the places the call did not reach.
NoLocals ==
    [sorted |-> FALSE, caught |-> "none",
     metric1 |-> <<>>, metric2 |-> <<>>, log_rate1 |-> <<>>, log_rate2 |-> <<>>,
     overlap |-> FALSE, min_int |-> 0, max_int |-> 0,
     interpolated |-> FALSE, int_v1 |-> 0, int_v2 |-> 0, avg_exp_diff |-> 0]

\* The call bd_rate_simpson(set1, set2): its outcome (out), the two lists
\* as it leaves them (set1, set2: list.sort sorts the caller's list), and
\* its locals (loc).  caught names the exception that the except clause
\* (TypeError, ZeroDivisionError, ValueError) turned into return 0.0.
BdRateSimpson(set1, set2) ==
    IF EitherEmpty(set1, set2)
    THEN [out |-> Returned(Zero), set1 |-> set1, set2 |-> set2, loc |-> NoLocals]
    ELSE
    LET s1 == SortByMetric(set1)
        s2 == SortByMetric(set2)
        l0 == [NoLocals EXCEPT !.sorted = TRUE]
        Caught(l) == [out |-> Returned(Zero), set1 |-> s1, set2 |-> s2,
                      loc |-> [l EXCEPT !.caught = "ValueError"]]
    IN
    IF LogRatesRaise(s1) \/ LogRatesRaise(s2) THEN Caught(l0)
    ELSE
    LET log_rate1 == LogRates(s1)
        metric1 == FixInf(s1)
        log_rate2 == LogRates(s2)
        metric2 == FixInf(s2)
    IN
    IF MinMaxRaises(metric1, metric2) THEN Caught(l0)
    ELSE
    LET min_int == MinInt(metric1, metric2)
        max_int == MaxInt(metric1, metric2)
        l1 == [l0 EXCEPT !.metric1 = metric1, !.metric2 = metric2,
                         !.log_rate1 = log_rate1, !.log_rate2 = log_rate2,
                         !.min_int = min_int, !.max_int = max_int]
    IN
    IF NoOverlap(min_int, max_int)
    THEN [out |-> Returned(Zero), set1 |-> s1, set2 |-> s2, loc |-> l1]
    ELSE
    LET l2 == [l1 EXCEPT !.overlap = TRUE] IN
    IF PchipRaises(metric1) \/ PchipRaises(metric2) THEN Caught(l2)
    ELSE
    LET v1 == PchipInterpolate(metric1, log_rate1, min_int, max_int)
        v2 == PchipInterpolate(metric2, log_rate2, min_int, max_int)
        int_v1 == Simpson(v1, min_int, max_int)
        int_v2 == Simpson(v2, min_int, max_int)
        avg_exp_diff == AvgExpDiff(int_v1, int_v2, min_int, max_int)
        l3 == [l2 EXCEPT !.interpolated = TRUE, !.int_v1 = int_v1,
                         !.int_v2 = int_v2, !.avg_exp_diff = avg_exp_diff]
    IN  [out |-> BdRatePercent(avg_exp_diff), set1 |-> s1, set2 |-> s2, loc |-> l3]

\* The frame before the call.
NotCalled == [out |-> None, set1 |-> <<>>, set2 |-> <<>>, loc |-> NoLocals]

\* main's bd_rate, and the locals of the call.
bd == frame.out
loc == frame.loc

---------------------------------------------------------------------------
(* The inputs of the comparison.                                           *)

\* The longest curve (rows of one CSV file) that is drawn.
MaxLen == 3

\* Lists of at most n elements of S.
RECURSIVE ListsUpTo(_, _)
ListsUpTo(S, n) ==
    IF n = 0 THEN {<<>>}
    ELSE LET shorter == ListsUpTo(S, n - 1)
         IN  shorter \cup {Append(l, p) : l \in {x \in shorter : Len(x) = n - 1}, p \in S}

DistinctMetrics(l) ==
    \A i, j \in 1..Len(l) : i # j => Metric(l[i]) # Metric(l[j])

\* A quality sweep: ordinary file sizes and finite, pairwise distinct metric
\* values, the rows in any order.  The comparison file may be larger.
SweepMetrics == {98, 99, 101}
RefSweeps ==
    {l \in ListsUpTo({Pow2(0), Pow2(1)} \X SweepMetrics, MaxLen) : DistinctMetrics(l)}
CmpSweeps ==
    {l \in ListsUpTo({Pow2(0), Pow2(1), Pow2(2)} \X SweepMetrics, MaxLen) :
        DistinctMetrics(l)}

\* Edge inputs: a file size of 0, file sizes at the two ends of the range
\* of a double, an infinite metric value, a finite one above the clamp,
\* repeated metric values.
EdgePoints == {ZeroRate, Pow2(-520), Pow2(520)} \X {99, 101, Inf}
EdgeCurves == ListsUpTo(EdgePoints, MaxLen - 1)

---------------------------------------------------------------------------
(* calc_some_scores: metrics.py, and the variant of scripts/metrics.py.    *)

RECURSIVE InsertAsc(_, _)
InsertAsc(s, p) ==
    IF s = <<>> THEN <<p>>
    ELSE IF s[1] <= p THEN <<s[1]>> \o InsertAsc(Tail(s), p)
         ELSE <<p>> \o s

\* sorted(score_list)
RECURSIVE Sorted(_)
Sorted(s) ==
    IF s = <<>> THEN <<>>
    ELSE InsertAsc(Sorted(SubSeq(s, 1, Len(s) - 1)), s[Len(s)])

\* sum(score_list)
RECURSIVE SumOf(_)
SumOf(s) == IF s = <<>> THEN 0 ELSE s[1] + SumOf(Tail(s))

\* sum(1 / score for score in s), for scores other than 0
RECURSIVE SumReciprocals(_)
SumReciprocals(s) ==
    IF s = <<>> THEN FracOf(0)
    ELSE FracAdd(Frac(1, s[1]), SumReciprocals(Tail(s)))

\* sum((x - average) ** 2 for x in s)
RECURSIVE SumSquares(_, _)
SumSquares(s, average) ==
    IF s = <<>> THEN FracOf(0)
    ELSE LET d == FracSub(FracOf(s[1]), average)
         IN  FracAdd(FracMul(d, d), SumSquares(Tail(s), average))

IsPositive(x) == x > 0
IsNotPositive(x) == x <= 0

\* int(len(score_list) * 0.1)
TenthOfRoundedUp(n) == (n + 9) \div 10 - 1
TenthOf(n) == n \div 10

\* len(positive_scores) / sum_reciprocals
HarmonicMeanInverted(positive_scores, sum_reciprocals) ==
    FracDiv(sum_reciprocals, FracOf(Len(positive_scores)))
HarmonicMean(positive_scores, sum_reciprocals) ==
    FracDiv(FracOf(Len(positive_scores)), sum_reciprocals)

\* (sum((x - average) ** 2 for x in score_list) / len(score_list)) ** 0.5
StdDevSample(series, average) ==
    FracSqrt(FracDiv(SumSquares(series, average), FracOf(Len(series) - 1)))
StdDev(series, average) ==
    FracSqrt(FracDiv(SumSquares(series, average), FracOf(Len(series))))

\* sorted(score_list)[int(len(score_list) * 0.1)]
Percentile10thUnsorted(series) == series[TenthOf(Len(series)) + 1]
Percentile10th(series) == Sorted(series)[TenthOf(Len(series)) + 1]

\* if positive_scores:
HasPositiveScoresAlways(positive_scores) == TRUE
HasPositiveScores(positive_scores) == positive_scores # <<>>

\* metrics.py, calc_some_scores on a list that is not empty: lines 260 to
\* 275, after the average.
ScoresOf(series) ==
    LET n == Len(series)
        average == Frac(SumOf(series), n)
        positive_scores == SelectSeq(series, IsPositive)
        negative_scores == SelectSeq(series, IsNotPositive)
        sum_reciprocals == FracSub(SumReciprocals(positive_scores),
                                   SumReciprocals(negative_scores))
    IN
    IF /\ HasPositiveScores(positive_scores)
       /\ \/ \E i \in 1..Len(negative_scores) : negative_scores[i] = 0
          \/ sum_reciprocals.num = 0
    THEN Raised("ZeroDivisionError")
    ELSE [kind |-> "return",
          average |-> average,
          harmonic_mean |-> IF HasPositiveScores(positive_scores)
                            THEN HarmonicMean(positive_scores, sum_reciprocals)
                            ELSE FracOf(0),
          std_dev |-> StdDev(series, average),
          percentile_10th |-> FracOf(Percentile10th(series))]

\* metrics.py, calc_some_scores: (average, harmonic_mean, std_dev,
\* percentile_10th), or the exception that leaves the function.  The
\* average of an empty list divides by len(score_list) = 0.
CalcSomeScoresOrDefault(series) ==
    IF Len(series) = 0
    THEN [kind |-> "return", average |-> FracOf(0), harmonic_mean |-> FracOf(0),
          std_dev |-> 0, percentile_10th |-> FracOf(0)]
    ELSE ScoresOf(series)
CalcSomeScores(series) ==
    IF Len(series) = 0 THEN Raised("ZeroDivisionError")
    ELSE ScoresOf(series)

\* statistics.quantiles(data, n=100)[10], the method "exclusive": the cut
\* point i = 11 of 99, interpolated between two neighbours of the sorted
\* data; a single data point is every cut point.
Quantiles100At10(series) ==
    LET data == Sorted(series)
        ld == Len(data)
        m == ld + 1
        j0 == (11 * m) \div 100
        j == IF j0 < 1 THEN 1 ELSE IF j0 > ld - 1 THEN ld - 1 ELSE j0
        delta == 11 * m - j * 100
    IN  IF ld = 1 THEN FracOf(data[1])
        ELSE Frac(data[j] * (100 - delta) + data[j + 1] * delta, 100)

\* scripts/metrics.py, calc_some_scores: (average, std_dev,
\* percentile_10th) by statistics.mean, statistics.stdev and
\* statistics.quantiles, or the exception that leaves the function.
CalcSomeScoresStatistics(series) ==
    LET n == Len(series) IN
    IF n < 2 THEN Raised("StatisticsError")
    ELSE
    LET average == Frac(SumOf(series), n)
    IN  [kind |-> "return",
         average |-> average,
         std_dev |-> FracSqrt(FracDiv(SumSquares(series, average), FracOf(n - 1))),
         percentile_10th |-> Quantiles100At10(series)]

\* The longest series drawn from all sample values, and the length of the
\* long series (the percentile index is above 0 from 10 samples on).
MaxSeries == 4
LongSeries == 10

Samples == {-2, 0, 1, 4}

SeriesOfLen(S, n) == {l \in ListsUpTo(S, n) : Len(l) = n}

InitScores ==
    /\ pc = "aggregate"
    /\ score_list \in ListsUpTo(Samples, MaxSeries) \cup SeriesOfLen({-2, 4}, LongSeries)
    /\ scores = None
    /\ in1 = <<>> /\ in2 = <<>> /\ metric_set1 = <<>> /\ metric_set2 = <<>>
    /\ frame = NotCalled
    /\ winner_msg = "none"
    /\ MainIdle /\ TransformIdle /\ CsvIdle /\ EncIdle

\* metrics.py: the scores of one metric of one video.
Aggregate ==
    /\ pc = "aggregate"
    /\ scores' = CalcSomeScores(score_list)
    /\ pc' = IF scores'.kind = "raise" THEN "raised" ELSE "aggregated"
    /\ UNCHANGED <<score_list, metric_set1, metric_set2, in1, in2, frame, winner_msg,
                   mainVars, transformVars, csvVars, encVars>>

\* scripts/metrics.py: the same, by the statistics module.
AggregateStatistics ==
    /\ pc = "aggregate"
    /\ scores' = CalcSomeScoresStatistics(score_list)
    /\ pc' = IF scores'.kind = "raise" THEN "raised_statistics"
             ELSE "aggregated_statistics"
    /\ UNCHANGED <<score_list, metric_set1, metric_set2, in1, in2, frame, winner_msg,
                   mainVars, transformVars, csvVars, encVars>>

NextScores == Aggregate \/ AggregateStatistics

SpecScores == InitScores /\ [][NextScores]_vars

---------------------------------------------------------------------------
(* The comparison of one metric of two CSV files: main builds the two      *)
(* lists, calls bd_rate_simpson and names the winner.                      *)

InitBD ==
    /\ pc = "call"
    /\ \/ in1 \in RefSweeps /\ in2 \in CmpSweeps
       \/ in1 \in EdgeCurves /\ in2 \in EdgeCurves
    /\ metric_set1 = in1
    /\ metric_set2 = in2
    /\ frame = NotCalled
    /\ winner_msg = "none"
    /\ score_list = <<>>
    /\ scores = None
    /\ MainIdle /\ TransformIdle /\ CsvIdle /\ EncIdle

\* bd_rate = bd_rate_simpson(metric_set1, metric_set2)
CallBdRate ==
    /\ pc = "call"
    /\ frame' = BdRateSimpson(metric_set1, metric_set2)
    /\ metric_set1' = frame'.set1
    /\ metric_set2' = frame'.set2
    /\ pc' = IF frame'.out.kind = "raise" THEN "raised" ELSE "report"
    /\ UNCHANGED <<in1, in2, winner_msg, score_list, scores,
                   mainVars, transformVars, csvVars, encVars>>

\* main, the decision on the sign of bd_rate: "<comparison> is better",
\* "<reference> is better" or "No difference".
WinnerSwapped(bd_rate) ==
    IF bd_rate.man < 0 THEN "reference is better"
    ELSE IF bd_rate.man > 0 THEN "comparison is better"
    ELSE "No difference"
Winner(bd_rate) ==
    IF bd_rate.man < 0 THEN "comparison is better"
    ELSE IF bd_rate.man > 0 THEN "reference is better"
    ELSE "No difference"

Report ==
    /\ pc = "report"
    /\ winner_msg' = Winner(bd.val)
    /\ pc' = "done"
    /\ UNCHANGED <<metric_set1, metric_set2, in1, in2, frame, score_list, scores,
                   mainVars, transformVars, csvVars, encVars>>

NextBD == CallBdRate \/ Report

SpecBD == InitBD /\ [][NextBD]_vars

---------------------------------------------------------------------------
(* The run of main of scripts/plot.py: it reads the CSV files, prints the  *)
(* average encode time of each, and compares the first file with each of   *)
(* the others, metric by metric.  The plots of create_metric_plot leave    *)
(* nothing in this state.  A cell of a CSV file is the float that float()  *)
(* reads from it.                                                          *)

\* read_csv: the keys of data, in the order of the dictionary.
Keys == <<"q", "encode_time", "output_filesize", "ssimu2_mean",
          "butter_distance", "wxpsnr", "vmaf_neg", "vmaf", "ssim", "psnr">>
KeySet == {Keys[i] : i \in 1..Len(Keys)}

\* main: metrics
Metrics == <<"ssimu2_mean", "butter_distance", "wxpsnr", "vmaf_neg", "vmaf",
             "ssim", "psnr">>
MetricSet == {Metrics[i] : i \in 1..Len(Metrics)}

\* read_csv: row[key] raises KeyError when the file has no column key.
\* csv.DictReader yields one dictionary per data row, so a file without
\* data rows raises nothing.
KeyErrorWithoutRows(file) == ~(KeySet \subseteq file.columns)
KeyErrorRaised(file) == file.rows # <<>> /\ ~(KeySet \subseteq file.columns)

\* read_csv(filename): data, a list per key, or the exception.
ReadCsv(file) ==
    IF KeyErrorRaised(file) THEN Raised("KeyError")
    ELSE Returned([key \in KeySet |->
                     ListOf([i \in 1..Len(file.rows) |-> file.rows[i][key]],
                            Len(file.rows))])

\* calculate_average_encode_time(data)
CalculateAverageEncodeTime(data) ==
    LET encode_times == data["encode_time"] IN
    IF Len(encode_times) = 0 THEN Raised("ZeroDivisionError")
    ELSE Returned(Frac(SumOf(encode_times), Len(encode_times)))

\* list(zip(a, b)), for two lists of the same length
Zip(a, b) == ListOf([i \in 1..Len(a) |-> <<a[i], b[i]>>], Len(a))

\* bdrate_vs_time_csv: the header line, and bd_rates.get(metric, 0)
Headers == <<"name", "avg_encode_time", "ssimu2_mean_bd", "butter_distance_bd",
             "wxpsnr_bd", "vmaf_neg_bd", "vmaf_bd", "ssim_bd", "psnr_bd">>
Get(rates, metric) == IF metric \in DOMAIN rates THEN rates[metric] ELSE Zero

\* os.path.exists(csv_file)
FileExistsNever(file) == FALSE
FileExists(file) == file.exists

\* The data row of bdrate_vs_time_csv.
BdRow(name, time, rates) ==
    [name |-> name, avg_encode_time |-> time,
     bd |-> [m \in MetricSet |-> Get(rates, m)]]

\* bdrate_vs_time_csv(name, time, bd_rates): the file afterwards.
BdrateVsTimeCsv(file, name, time, rates) ==
    LET row == BdRow(name, time, rates)
    IN  IF FileExists(file)
        THEN [file EXCEPT !.lines = Append(@, row)]
        ELSE [exists |-> TRUE, lines |-> <<Headers, row>>]

\* {metric: 0.0 for metric in metrics}
ZeroRates == [m \in MetricSet |-> Zero]

\* The files of a run.  A file has its columns and its data rows; every
\* sweep has two rows of one file size, the second of higher quality in
\* every metric (High) or in wxpsnr alone (HighWxpsnr), which repeats the
\* metric value of the first row in the other six metrics.
MaxFiles == 3

Low == [m \in MetricSet |-> 99]
High == [m \in MetricSet |-> 101]
HighWxpsnr == [m \in MetricSet |-> IF m = "wxpsnr" THEN 101 ELSE 99]

Cell(key, size, time, quality) ==
    IF key = "q" THEN 30
    ELSE IF key = "encode_time" THEN time
    ELSE IF key = "output_filesize" THEN size
    ELSE IF key \in MetricSet THEN quality[key]
    ELSE 0

SweepRows(columns, size, quality) ==
    <<[key \in columns |-> Cell(key, size, 2, Low)],
      [key \in columns |-> Cell(key, size, 4, quality)]>>

\* Ordinary file sizes, and file sizes at the two ends of the range of a
\* double.
FileSizes == {Pow2(0), Pow2(1)}
ExtremeFileSizes == {Pow2(-520), Pow2(520)}

\* Files with the ten columns: one without data rows, and the sweeps.
CompleteFiles ==
    {[columns |-> KeySet, rows |-> <<>>]}
    \cup {[columns |-> KeySet, rows |-> SweepRows(KeySet, size, quality)] :
             size \in FileSizes, quality \in {High, HighWxpsnr}}
    \cup {[columns |-> KeySet, rows |-> SweepRows(KeySet, size, HighWxpsnr)] :
             size \in ExtremeFileSizes}

\* Files with another set of columns: vmaf missing, without and with data
\* rows, and a column more than the ten.
OtherFiles ==
    {[columns |-> KeySet \ {"vmaf"}, rows |-> <<>>],
     [columns |-> KeySet \ {"vmaf"},
      rows |-> SweepRows(KeySet \ {"vmaf"}, Pow2(0), High)],
     [columns |-> KeySet \cup {"note"},
      rows |-> SweepRows(KeySet \cup {"note"}, Pow2(0), High)]}

InitRun ==
    /\ pc = "read"
    /\ csv_files \in {l \in ListsUpTo(CompleteFiles \cup OtherFiles, MaxFiles) : l # <<>>}
    /\ datasets = <<>> /\ idx = 0 /\ metric_idx = 0
    /\ bd_rates = <<>> /\ stdout = <<>> /\ bd_vs_time = NoFile
    /\ error = "none"
    /\ metric_set1 = <<>> /\ metric_set2 = <<>> /\ in1 = <<>> /\ in2 = <<>>
    /\ frame = NotCalled /\ winner_msg = "none"
    /\ score_list = <<>> /\ scores = None
    /\ TransformIdle /\ CsvIdle /\ EncIdle

\* What a step of main leaves alone besides its own variables.
NotOfMain == <<score_list, scores, transformVars, csvVars, encVars>>
CallLocals == <<metric_set1, metric_set2, in1, in2, frame, winner_msg>>

\* for filename in csv_files: data = read_csv(filename); label = ...;
\* datasets.append((label, data)).  The label is the position of the file.
ReadNext ==
    /\ pc = "read"
    /\ LET n == Len(datasets) + 1
           read == ReadCsv(csv_files[n])
       IN  IF read.kind = "raise"
           THEN /\ pc' = "crashed"
                /\ error' = read.exc
                /\ UNCHANGED datasets
           ELSE /\ datasets' = Append(datasets, [label |-> n, data |-> read.val])
                /\ pc' = IF n = Len(csv_files) THEN "average" ELSE "read"
                /\ UNCHANGED error
    /\ UNCHANGED <<csv_files, idx, metric_idx, bd_rates, stdout, bd_vs_time,
                   CallLocals, NotOfMain>>

\* The line "Average encode time for <label>: ..." of dataset i.
AverageLine(i) ==
    [kind |-> "average", label |-> datasets[i].label,
     avg_time |-> CalculateAverageEncodeTime(datasets[i].data).val]

\* for label, data in datasets: print the average encode time; then the
\* choice between the comparison and the single file.
PrintAverages ==
    /\ pc = "average"
    /\ LET n == Len(datasets)
           empty == {i \in 1..n :
                       CalculateAverageEncodeTime(datasets[i].data).kind = "raise"}
           printed == IF empty = {} THEN n
                      ELSE (CHOOSE i \in empty : \A k \in empty : i <= k) - 1
       IN  /\ stdout' = stdout \o ListOf([i \in 1..printed |-> AverageLine(i)], printed)
           /\ pc' = IF empty # {} THEN "crashed"
                    ELSE IF n >= 2 THEN "begin" ELSE "single"
           /\ error' = IF empty # {} THEN "ZeroDivisionError" ELSE error
    /\ idx' = 1
    /\ UNCHANGED <<csv_files, datasets, metric_idx, bd_rates, bd_vs_time,
                   CallLocals, NotOfMain>>

\* Fewer than two files: the message, and the row of the single file.
Single ==
    /\ pc = "single"
    /\ stdout' = Append(stdout, [kind |-> "need_two"])
    /\ bd_vs_time' =
          BdrateVsTimeCsv(bd_vs_time, datasets[1].label,
                          CalculateAverageEncodeTime(datasets[1].data).val,
                          ZeroRates)
    /\ pc' = "exit"
    /\ UNCHANGED <<csv_files, datasets, idx, metric_idx, bd_rates, error,
                   CallLocals, NotOfMain>>

\* for idx in range(1, len(datasets)): the heading of the comparison and
\* bd_rates = {}; after the last comparison main returns.
BeginComparison ==
    /\ pc = "begin"
    /\ IF idx < Len(datasets)
       THEN /\ stdout' = Append(stdout, [kind |-> "heading",
                                         label |-> datasets[1].label,
                                         with |-> datasets[idx + 1].label])
            /\ bd_rates' = <<>>
            /\ metric_idx' = 1
            /\ pc' = "compare"
       ELSE /\ pc' = "exit"
            /\ UNCHANGED <<stdout, bd_rates, metric_idx>>
    /\ UNCHANGED <<csv_files, datasets, idx, bd_vs_time, error,
                   CallLocals, NotOfMain>>

\* for metric in metrics: the two lists, bd_rate_simpson, the winner and
\* the printed line.  An exception of bd_rate_simpson ends main.
Compare ==
    /\ pc = "compare"
    /\ metric_idx <= Len(Metrics)
    /\ LET metric == Metrics[metric_idx]
           data1 == datasets[1].data
           data2 == datasets[idx + 1].data
       IN  /\ in1' = Zip(data1["output_filesize"], data1[metric])
           /\ in2' = Zip(data2["output_filesize"], data2[metric])
           /\ frame' = BdRateSimpson(in1', in2')
           /\ metric_set1' = frame'.set1
           /\ metric_set2' = frame'.set2
           /\ IF frame'.out.kind = "raise"
              THEN /\ pc' = "crashed"
                   /\ error' = frame'.out.exc
                   /\ UNCHANGED <<bd_rates, winner_msg, stdout, metric_idx>>
              ELSE /\ bd_rates' = (metric :> frame'.out.val) @@ bd_rates
                   /\ winner_msg' = Winner(frame'.out.val)
                   /\ stdout' = Append(stdout, [kind |-> "bd_rate",
                                                with |-> datasets[idx + 1].label,
                                                metric |-> metric,
                                                bd_rate |-> frame'.out.val,
                                                winner_msg |-> winner_msg'])
                   /\ metric_idx' = metric_idx + 1
                   /\ UNCHANGED <<pc, error>>
    /\ UNCHANGED <<csv_files, datasets, idx, bd_vs_time, NotOfMain>>

\* After the last metric: the two average encode times, the row of the
\* reference and the row of the comparison in bd_vs_time.csv, and an
\* empty line unless this was the last comparison.
EndComparison ==
    /\ pc = "compare"
    /\ metric_idx > Len(Metrics)
    /\ LET avg_time1 == CalculateAverageEncodeTime(datasets[1].data).val
           avg_time2 == CalculateAverageEncodeTime(datasets[idx + 1].data).val
           reference == BdrateVsTimeCsv(bd_vs_time, datasets[1].label,
                                        avg_time1, ZeroRates)
       IN  bd_vs_time' = BdrateVsTimeCsv(reference, datasets[idx + 1].label,
                                         avg_time2, bd_rates)
    /\ stdout' = IF idx < Len(datasets) - 1
                 THEN Append(stdout, [kind |-> "empty"]) ELSE stdout
    /\ idx' = idx + 1
    /\ pc' = "begin"
    /\ UNCHANGED <<csv_files, datasets, metric_idx, bd_rates, error,
                   CallLocals, NotOfMain>>

NextRun ==
    \/ ReadNext
    \/ PrintAverages
    \/ Single
    \/ BeginComparison
    \/ Compare
    \/ EndComparison

SpecRun == InitRun /\ [][NextRun]_vars

---------------------------------------------------------------------------
(* The two writers of CSV files, write_stats of scripts/stats.py and       *)
(* bdrate_vs_time_csv of scripts/plot.py, called any number of times.  A   *)
(* file is its lines: the header line as the list of its column names, a   *)
(* data row as the values of its cells.                                    *)

EndsWith(str, suffix) ==
    /\ Len(str) >= Len(suffix)
    /\ SubSeq(str, Len(str) - Len(suffix) + 1, Len(str)) = suffix

\* csv = name if name.endswith(".csv") else f"{name}.csv"
CsvPath(name) == IF EndsWith(name, ".csv") THEN name ELSE name \o ".csv"

\* write_stats(name, q, encode_time, ...): the files afterwards.  Both
\* branches write the same data row; the header line is the ten columns
\* that read_csv reads.
WriteStats(files, name, row) ==
    LET csv == CsvPath(name)
    IN  IF FileExists(files[csv])
        THEN [files EXCEPT ![csv].lines = Append(@, row)]
        ELSE [files EXCEPT ![csv] = [exists |-> TRUE, lines |-> <<Keys, row>>]]

\* The number of calls in a run of the writers.
MaxCalls == 3

\* The names given to write_stats: two spellings of out.csv, and enc.csv.
StatsNames == {"out", "out.csv", "enc"}

\* The rows of write_stats, told apart by their encode time.
StatsRows == {[key \in KeySet |-> Cell(key, Pow2(0), time, High)] : time \in {2, 4}}

\* The arguments of bdrate_vs_time_csv: labels, average encode times, and
\* dictionaries with all, none and one of the metrics.
BdNames == {1, 2}
BdTimes == {Frac(2, 1), Frac(3, 1)}
BdRates == {ZeroRates, <<>>, "vmaf" :> Float(-5 * Scale, 0)}

InitCsv ==
    /\ pc = "csv"
    /\ CsvIdle
    /\ MainIdle /\ TransformIdle /\ EncIdle
    /\ metric_set1 = <<>> /\ metric_set2 = <<>> /\ in1 = <<>> /\ in2 = <<>>
    /\ frame = NotCalled /\ winner_msg = "none"
    /\ score_list = <<>> /\ scores = None

NotOfCsv ==
    <<pc, metric_set1, metric_set2, in1, in2, frame, winner_msg, score_list,
      scores, csv_files, datasets, idx, metric_idx, bd_rates, stdout, error,
      transformVars, encVars>>

CallWriteStats ==
    /\ pc = "csv"
    /\ Len(calls) < MaxCalls
    /\ \E name \in StatsNames, row \in StatsRows :
          /\ stats_csv' = WriteStats(stats_csv, name, row)
          /\ calls' = Append(calls, [fn |-> "write_stats", name |-> name,
                                     row |-> row])
    /\ UNCHANGED <<bd_vs_time, NotOfCsv>>

CallBdrateVsTimeCsv ==
    /\ pc = "csv"
    /\ Len(calls) < MaxCalls
    /\ \E name \in BdNames, time \in BdTimes, rates \in BdRates :
          /\ bd_vs_time' = BdrateVsTimeCsv(bd_vs_time, name, time, rates)
          /\ calls' = Append(calls, [fn |-> "bdrate_vs_time_csv",
                                     row |-> BdRow(name, time, rates)])
    /\ UNCHANGED <<stats_csv, NotOfCsv>>

NextCsv == CallWriteStats \/ CallBdrateVsTimeCsv

SpecCsv == InitCsv /\ [][NextCsv]_vars

---------------------------------------------------------------------------
(* VideoEnc of scripts/metrics.py: the constructor and set_enc_cmd, which  *)
(* builds the command line of the encoder.                                 *)

\* The position of the last ch in str, 0 when there is none.
RECURSIVE LastIndexOf(_, _, _)
LastIndexOf(str, ch, i) ==
    IF i = 0 THEN 0
    ELSE IF SubSeq(str, i, i) = ch THEN i
    ELSE LastIndexOf(str, ch, i - 1)

\* os.path.basename(path)
BaseName(path) == SubSeq(path, LastIndexOf(path, "/", Len(path)) + 1, Len(path))

\* os.path.splitext(name)[0], for a name that does not start with a dot
SplitExtRoot(name) ==
    LET dot == LastIndexOf(name, ".", Len(name))
    IN  IF dot <= 1 THEN name ELSE SubSeq(name, 1, dot - 1)

\* The extension that the two match statements on dst_pth choose.
Extension(encoder) ==
    CASE encoder = "x264" -> ".264"
      [] encoder = "x265" -> ".265"
      [] encoder = "vvenc" -> ".266"
      [] OTHER -> ".ivf"

\* self.dst_pth after the first half of set_enc_cmd.
DstPth(src_path, encoder, q, dst_pth) ==
    IF dst_pth = ""
    THEN "./" \o SplitExtRoot(BaseName(src_path)) \o "_" \o encoder \o "_q"
              \o ToString(q) \o Extension(encoder)
    ELSE dst_pth \o Extension(encoder)

\* cmd, by the match statement on self.encoder; case _ is the aomenc
\* command.
EncCmd(encoder, q, dst_pth) ==
    CASE encoder = "x264" ->
            <<"x264", "--demuxer", "y4m", "--crf", ToString(q), "-o", dst_pth, "-">>
      [] encoder = "x265" ->
            <<"x265", "--y4m", "-", "--crf", ToString(q), "-o", dst_pth>>
      [] encoder = "vvenc" ->
            <<"vvencapp", "--y4m", "-i", "-", "--qp", ToString(q), "-o", dst_pth>>
      [] encoder = "svtav1" ->
            <<"SvtAv1EncApp", "-i", "-", "-b", dst_pth, "--crf", ToString(q)>>
      [] OTHER ->
            <<"aomenc", "--ivf", "--end-usage=q", "--cq-level=" \o ToString(q),
              "--passes=1", "-y", "-", "-o", dst_pth>>

\* self.encoder_args = encoder_args if encoder_args else [""]
EncoderArgs(encoder_args) == IF encoder_args = <<>> THEN <<"">> ELSE encoder_args

\* set_enc_cmd: the destination path and the command, with the encoder
\* arguments appended unless they are [""].
SetEncCmd(self) ==
    LET dst_pth == DstPth(self.src, self.encoder, self.q, self.dst_pth)
        cmd == EncCmd(self.encoder, self.q, dst_pth)
    IN  [dst_pth |-> dst_pth,
         cmd |-> IF self.encoder_args # <<"">> THEN cmd \o self.encoder_args ELSE cmd]

\* VideoEnc(src, q, encoder, encoder_args, dst_pth): the object.
VideoEnc(src, q, encoder, encoder_args, dst_pth) ==
    LET self == [src |-> src, dst_pth |-> dst_pth, q |-> q, encoder |-> encoder,
                 encoder_args |-> EncoderArgs(encoder_args)]
        set == SetEncCmd(self)
    IN  [src |-> src, dst_pth |-> set.dst_pth, q |-> q, encoder |-> encoder,
         encoder_args |-> self.encoder_args, enc_cmd |-> set.cmd, time |-> 0]

\* The encoder names that the front ends accept: choices of stats.py and
\* of encode.py.
StatsEncoders == {"x264", "x265", "svtav1", "aomenc", "vpxenc"}
EncodeEncoders == {"x264", "x265", "svtav1", "aomenc"}

\* The arguments of the constructor: the front-end names and vvenc, which
\* set_enc_cmd knows; quality values; source paths; encoder arguments; the
\* output name of encode.py, or none.
EncoderNames == StatsEncoders \cup EncodeEncoders \cup {"vvenc"}
Qualities == {0, 20, 35, 63}
SourcePaths == {"clip.y4m", "videos/clip.y4m"}
EncoderArgLists == {<<>>, <<"--preset", "8">>}
OutputNames == {"", "out"}

InitEnc ==
    /\ pc = "construct"
    /\ video_enc \in [src : SourcePaths, q : Qualities, encoder : EncoderNames,
                      encoder_args : EncoderArgLists, dst_pth : OutputNames]
    /\ MainIdle /\ TransformIdle /\ CsvIdle
    /\ metric_set1 = <<>> /\ metric_set2 = <<>> /\ in1 = <<>> /\ in2 = <<>>
    /\ frame = NotCalled /\ winner_msg = "none"
    /\ score_list = <<>> /\ scores = None

\* e = VideoEnc(s, q, enc, enc_args) or VideoEnc(s, q, enc, enc_args, dst_pth)
Construct ==
    /\ pc = "construct"
    /\ video_enc' = VideoEnc(video_enc.src, video_enc.q, video_enc.encoder,
                             video_enc.encoder_args, video_enc.dst_pth)
    /\ pc' = "constructed"
    /\ UNCHANGED <<metric_set1, metric_set2, in1, in2, frame, winner_msg,
                   score_list, scores, mainVars, transformVars, csvVars>>

NextEnc == Construct

SpecEnc == InitEnc /\ [][NextEnc]_vars

---------------------------------------------------------------------------
(* The scalar transforms of metrics.py.  Logarithms and powers are taken   *)
(* in units of 1 / Fine; a distance of Butteraugli and a PSNR in dB are    *)
(* numbers of thousandths.                                                 *)

Fine == 10 * Scale
Micro == Scale * Scale
Ln2Fine == (693147 * 10) \div 1000
Ln10Fine == (2302585 + 50) \div 100

\* The exponent k with 2^k <= v / unit < 2^(k+1), for v > 0.
RECURSIVE BinaryExponent(_, _, _)
BinaryExponent(v, unit, k) ==
    IF v >= 2 * unit THEN BinaryExponent(v, 2 * unit, k + 1)
    ELSE IF v < unit THEN BinaryExponent(2 * v, unit, k - 1)
    ELSE k

\* ln(m) for 1 <= m < 2, m in units of 1 / Fine: 2 * atanh(z) with
\* z = (m - 1) / (m + 1), by its series up to z^9.
LnMantissa(m) ==
    LET z == RDiv((m - Fine) * Fine, m + Fine)
        z2 == RDiv(z * z, Fine)
        z3 == RDiv(z * z2, Fine)
        z5 == RDiv(z3 * z2, Fine)
        z7 == RDiv(z5 * z2, Fine)
        z9 == RDiv(z7 * z2, Fine)
    IN  2 * (z + RDiv(z3, 3) + RDiv(z5, 5) + RDiv(z7, 7) + RDiv(z9, 9))

\* math.log10(x) raises ValueError for x <= 0.
MathLog10Raises(v) == v <= 0

\* math.log10(v / Micro), in units of 1 / Fine.
MathLog10(v) ==
    LET k == BinaryExponent(v, Micro, 0)
        m == IF k >= 0 THEN RDiv(v, 100 * Pow2Int(k))
             ELSE RDiv(v * Pow2Int(-k), 100)
    IN  RDiv((k * Ln2Fine + LnMantissa(m)) * Fine, Ln10Fine)

\* exp(r) for 0 <= r < ln 2, in units of 1 / Fine, by its series.
RECURSIVE ExpFineSeries(_, _, _)
ExpFineSeries(r, term, k) ==
    IF term = 0 THEN 0
    ELSE term + ExpFineSeries(r, RDiv(term * r, k * Fine), k + 1)

\* A positive float as a decimal mantissa and exponent: man * 10^e10 / Fine.
Dec(man, e10) == [man |-> man, e10 |-> e10]

\* The mantissa brought back into [Fine, 10 * Fine).
RECURSIVE DecNormal(_)
DecNormal(x) ==
    IF x.man >= 10 * Fine THEN DecNormal(Dec(RDiv(x.man, 10), x.e10 + 1))
    ELSE IF x.man < Fine /\ x.man > 0 THEN DecNormal(Dec(x.man * 10, x.e10 - 1))
    ELSE x

\* 10 ** y, for y >= 0 in units of 1 / Fine: 10^floor(y) times
\* exp(frac(y) * ln 10).
TenToThe(y) ==
    LET whole == y \div Fine
        a == RDiv((y - whole * Fine) * Ln10Fine, Fine)
        n == a \div Ln2Fine
        e == ExpFineSeries(a - n * Ln2Fine, Fine, 1)
    IN  DecNormal(Dec(e * Pow2Int(n), whole))

\* 10 ** y raises OverflowError once the power leaves the doubles
\* (10^309 > 2^1024): compared on the whole part of y.
TenToTheRaises(y) == (y \div Fine) * Ln10Fine >= DblMaxExp * Ln2Fine

\* butter_to_vbutter: if d != 0.0
DistanceNotZeroAlways(d) == TRUE
DistanceNotZero(d) == d # 0

\* (2.0 / (abs(d) + 2.0)) * 200.0, in units of 1 / Micro.
LogArgument(d) == RDiv(2 * Scale * Micro, Abs(d) + 2 * Scale) * 200

\* The constant 1.30103.
Offset == (130103 * Fine) \div 100000

\* vb = log10(...) - 1.30103
VbNegated(log) == Offset - log
Vb(log) == log - Offset

\* butter_to_vbutter(d), d in thousandths; the result in units of 1 / Fine
\* (vb = 1.0 is Fine).
ButterToVbutter(d) ==
    IF DistanceNotZero(d)
    THEN IF MathLog10Raises(LogArgument(d)) THEN Raised("ValueError")
         ELSE Returned(Vb(MathLog10(LogArgument(d))) * 100)
    ELSE Returned(Fine * 100)

\* The decimal digits of Fine: a whole number n is Dec(n, FineDigits).
FineDigits == 4

\* psnr_to_mse(p, m) = (m**2) / (10 ** (p / 10)), p in thousandths of a dB.
PsnrToMseNoSquare(p, m) ==
    LET power == TenToThe(p)
    IN  Dec(RDiv(m * Fine, power.man), FineDigits - power.e10)
PsnrToMse(p, m) ==
    LET power == TenToThe(p)
    IN  Dec(RDiv(m * m * Fine, power.man), FineDigits - power.e10)

RECURSIVE TenToTheInt(_)
TenToTheInt(n) == IF n <= 0 THEN 1 ELSE 10 * TenToTheInt(n - 1)

\* The mantissa of x at the exponent e10 >= x.e10; digits below it are
\* rounded away, as the smaller operand of a float addition is.
AlignedMan(x, e10) ==
    IF e10 - x.e10 > 9 THEN 0 ELSE RDiv(x.man, TenToTheInt(e10 - x.e10))

\* ((4.0 * xpsnr_mse_y) + xpsnr_mse_u + xpsnr_mse_v) / 6.0
WeightedMse(y, u, v) ==
    LET e10 == MaxOf(<<y.e10, u.e10, v.e10>>)
    IN  Dec(RDiv(4 * AlignedMan(y, e10) + AlignedMan(u, e10) + AlignedMan(v, e10), 6),
            e10)

maxval == 255

\* 10.0 * math.log10((maxval**2) / w_xpsnr_mse), in units of 1 / Fine.
WXpsnr(w_xpsnr_mse) ==
    10 * (MathLog10(RDiv(maxval * maxval * Fine, w_xpsnr_mse.man) * 100)
            + (FineDigits - w_xpsnr_mse.e10) * Fine)

\* The tail of calculate_xpsnr, from the three plane values parsed from
\* ffmpeg's output (0.0 each when the line is not found).
CalculateXpsnr(xpsnr_y, xpsnr_u, xpsnr_v) ==
    IF \E p \in {xpsnr_y, xpsnr_u, xpsnr_v} : TenToTheRaises(p)
    THEN Raised("OverflowError")
    ELSE Returned(WXpsnr(WeightedMse(PsnrToMse(xpsnr_y, maxval),
                                     PsnrToMse(xpsnr_u, maxval),
                                     PsnrToMse(xpsnr_v, maxval))))

\* Butteraugli distances, in thousandths: zero, a negative one, and positive
\* ones from 0.001 to 1000.
Distances ==
    {0, -1000, 1, 10, 100, 500, 1000, 2000, 3000, 5000, 10000, 20000, 50000,
     100000, 1000000}

\* XPSNR plane values in thousandths of a dB, as "\d+\.\d+" can spell them;
\* 0.0 is also what a missing line gives.
Psnrs == {0, 20000, 30500, 35250, 42125, 99999}

InitTransforms ==
    /\ pc = "transform"
    /\ arg \in {<<d>> : d \in Distances}
            \cup {<<y, u, v>> : y \in Psnrs, u \in Psnrs, v \in Psnrs}
    /\ result = <<>>
    /\ metric_set1 = <<>> /\ metric_set2 = <<>>
    /\ in1 = <<>> /\ in2 = <<>>
    /\ frame = NotCalled
    /\ winner_msg = "none"
    /\ score_list = <<>>
    /\ scores = None
    /\ MainIdle /\ CsvIdle /\ EncIdle

NotOfTransforms ==
    <<metric_set1, metric_set2, in1, in2, frame, winner_msg, score_list, scores,
      mainVars, csvVars, encVars>>

CallButterToVbutter ==
    /\ pc = "transform"
    /\ Len(arg) = 1
    /\ result' = ButterToVbutter(arg[1])
    /\ pc' = "done"
    /\ UNCHANGED <<arg, NotOfTransforms>>

CallCalculateXpsnr ==
    /\ pc = "transform"
    /\ Len(arg) = 3
    /\ result' = CalculateXpsnr(arg[1], arg[2], arg[3])
    /\ pc' = "done"
    /\ UNCHANGED <<arg, NotOfTransforms>>

NextTransforms == CallButterToVbutter \/ CallCalculateXpsnr

SpecTransforms == InitTransforms /\ [][NextTransforms]_vars

---------------------------------------------------------------------------
(* Properties of bd_rate_simpson and of the report, under SpecBD.          *)

\* bd_rate_simpson has been called.
Called == pc \in {"raised", "report", "done"}

PositiveRates(c) == \A i \in 1..Len(c) : Rate(c[i]).sgn > 0
FiniteMetrics(c) == \A i \in 1..Len(c) : Metric(c[i]) # Inf
SomeRateNotPositive(c) == \E i \in 1..Len(c) : Rate(c[i]).sgn <= 0

\* At least two points, positive rates, pairwise distinct finite metrics.
ProperCurve(c) ==
    Len(c) >= 2 /\ PositiveRates(c) /\ FiniteMetrics(c) /\ DistinctMetrics(c)

\* The rates of a proper curve are not all the same.
VaryingRates(c) == \E i, n \in 1..Len(c) : Rate(c[i]) # Rate(c[n])

\* b has the metric values of a, and at each of them the rate of a
\* multiplied by k = 2^j.
ScaledBy(a, b, j) ==
    /\ Len(a) = Len(b)
    /\ \A i \in 1..Len(a) : \E n \in 1..Len(b) :
          /\ Metric(b[n]) = Metric(a[i])
          /\ Rate(b[n]) = Pow2(Rate(a[i]).exp + j)

\* The factors k = 2^j of the sweeps, and 2^j on the scale of the floats.
ScaleExps == -1..2
Pow2Scaled(j) == IF j >= 0 THEN Scale * Pow2Int(j) ELSE Scale \div Pow2Int(-j)

\* "Approximately": within five points of a percentage.
Tolerance == 5 * Scale

Near(out, expected) ==
    /\ out.kind = "return"
    /\ out.val.exp = 0
    /\ Abs(out.val.man - expected) <= Tolerance

\* C1 as the specification states it: when every rate of B is the rate of
\* A at the same distortion multiplied by k, bd_rate_simpson(A, B) is
\* approximately (1/k - 1) * 100, about -50 for k = 2.
C1_ScaledRatesInverse ==
    \A j \in ScaleExps :
        (Called /\ ProperCurve(in1) /\ ScaledBy(in1, in2, j))
            => Near(bd, (Pow2Scaled(-j) - Scale) * 100)

\* C1 as the code has it: when every rate of B is the rate of A at the
\* same distortion multiplied by k, bd_rate_simpson(A, B) is approximately
\* (k - 1) * 100, about +100 for k = 2 and about -50 for k = 1/2.
C1_ScaledRates ==
    \A j \in ScaleExps :
        (Called /\ ProperCurve(in1) /\ ScaledBy(in1, in2, j))
            => Near(bd, (Pow2Scaled(j) - Scale) * 100)

\* A three-point curve of varying rates was compared with its double.
C1_Witness ==
    /\ pc = "done"
    /\ Len(in1) = 3 /\ ProperCurve(in1) /\ VaryingRates(in1)
    /\ ScaledBy(in1, in2, 1)
    /\ loc.interpolated
    /\ bd.val.man > 0

\* C2: a curve of at least two points, positive rates and pairwise
\* distinct finite metric values, compared with an identical copy of
\* itself, gives exactly 0.0: the averaged log-rate difference is zero.
C2_IdenticalCurves ==
    (Called /\ ProperCurve(in1) /\ in2 = in1)
        => /\ bd = Returned(Zero)
           /\ loc.interpolated
           /\ loc.avg_exp_diff = 0

\* A three-point curve of varying rates was compared with its copy.
C2_Witness ==
    /\ pc = "done"
    /\ Len(in1) = 3 /\ ProperCurve(in1) /\ VaryingRates(in1)
    /\ in2 = in1
    /\ loc.interpolated
    /\ bd = Returned(Zero)

\* C3 as the specification states it: for non-empty inputs
\* bd_rate_simpson never raises to its caller, and every failure,
\* the overflow of the final exponential included, gives 0.0.
C3_NeverRaises ==
    (Called /\ in1 # <<>> /\ in2 # <<>>) => bd.kind = "return"

\* C4 as the specification states it: a point whose rate is <= 0 is
\* rejected with an InvalidRateError; it is not turned into a BD-rate.
C4_InvalidRateError ==
    (Called /\ in1 # <<>> /\ in2 # <<>>
        /\ (SomeRateNotPositive(in1) \/ SomeRateNotPositive(in2)))
        => bd = Raised("InvalidRateError")

\* C4 as the code has it: between two non-empty curves, a point whose
\* rate is <= 0 makes math.log raise ValueError, bd_rate_simpson catches
\* it and returns 0.0 before any interpolation, and the report reads
\* "No difference".
C4_NonPositiveRateGivesZero ==
    (Called /\ in1 # <<>> /\ in2 # <<>>
        /\ (SomeRateNotPositive(in1) \/ SomeRateNotPositive(in2)))
        => /\ bd = Returned(Zero)
           /\ loc.caught = "ValueError"
           /\ ~loc.overlap /\ ~loc.interpolated
           /\ (pc = "done" => winner_msg = "No difference")

\* A comparison curve with a rate of 0 was reported as "No difference".
C4_Witness ==
    /\ pc = "done"
    /\ Len(in1) = 2 /\ PositiveRates(in1)
    /\ Len(in2) = 2 /\ SomeRateNotPositive(in2)
    /\ loc.caught = "ValueError"
    /\ winner_msg = "No difference"

\* The metric values of a curve as bd_rate_simpson reads them.
ClampedMetrics(c) ==
    {IF Metric(c[i]) = Inf THEN ClampValue ELSE Metric(c[i]) : i \in 1..Len(c)}

Least(S) == CHOOSE m \in S : \A n \in S : m <= n
Greatest(S) == CHOOSE m \in S : \A n \in S : m >= n

\* lo, the larger of the two minima, and hi, the smaller of the two maxima.
RangeLo(a, b) ==
    Greatest({Least(ClampedMetrics(a)), Least(ClampedMetrics(b))})
RangeHi(a, b) ==
    Least({Greatest(ClampedMetrics(a)), Greatest(ClampedMetrics(b))})

\* C5: when the metric ranges of two curves do not overlap in an interval
\* of positive width (hi <= lo), bd_rate_simpson returns exactly 0.0 and
\* does not attempt the interpolation.
C5_NoOverlapGivesZero ==
    (Called /\ in1 # <<>> /\ in2 # <<>> /\ RangeHi(in1, in2) <= RangeLo(in1, in2))
        => /\ bd = Returned(Zero)
           /\ ~loc.overlap /\ ~loc.interpolated

\* Two curves of two points each, of positive rates, with a gap between
\* their metric ranges, were compared.
C5_Witness ==
    /\ pc = "done"
    /\ Len(in1) = 2 /\ PositiveRates(in1)
    /\ Len(in2) = 2 /\ PositiveRates(in2)
    /\ RangeHi(in1, in2) < RangeLo(in1, in2)
    /\ loc.sorted /\ loc.caught = "none"
    /\ bd = Returned(Zero)

\* C6: when one argument has exactly one point and the other is any
\* non-empty curve of positive rates, the result is 0.0: the overlap of
\* the ranges has no width, so no interpolant is fitted.
C6_SinglePointGivesZero ==
    (Called /\ (Len(in1) = 1 \/ Len(in2) = 1) /\ in1 # <<>> /\ in2 # <<>>
        /\ PositiveRates(in1) /\ PositiveRates(in2))
        => /\ bd = Returned(Zero)
           /\ ~loc.overlap /\ ~loc.interpolated

\* A single point was compared with a three-point curve whose range
\* holds its metric value strictly inside.
C6_Witness ==
    /\ pc = "done"
    /\ Len(in1) = 1 /\ PositiveRates(in1)
    /\ Len(in2) = 3 /\ ProperCurve(in2)
    /\ Least(ClampedMetrics(in2)) < Metric(in1[1])
    /\ Metric(in1[1]) < Greatest(ClampedMetrics(in2))
    /\ bd = Returned(Zero)

\* C7: when either argument has no points, bd_rate_simpson returns 0.0
\* immediately, before it sorts the lists or takes a logarithm, whatever
\* the other argument holds, rates <= 0 included.
C7_EmptyGivesZero ==
    (Called /\ (in1 = <<>> \/ in2 = <<>>))
        => /\ bd = Returned(Zero)
           /\ ~loc.sorted /\ loc.caught = "none"
           /\ metric_set1 = in1 /\ metric_set2 = in2

\* An empty reference was compared with an unsorted curve that has a rate
\* of 0.
C7_Witness ==
    /\ pc = "done"
    /\ in1 = <<>>
    /\ Len(in2) = 2 /\ SomeRateNotPositive(in2)
    /\ Metric(in2[1]) > Metric(in2[2])
    /\ metric_set2 = in2
    /\ bd = Returned(Zero)

\* b has the metric values of a; at each of them its rate is not above
\* the rate of a, and at one of them it is below.
LowerRateAtEqualDistortion(a, b) ==
    /\ Len(a) = Len(b)
    /\ \A i \in 1..Len(a) : \E n \in 1..Len(b) :
          /\ Metric(b[n]) = Metric(a[i])
          /\ Rate(b[n]).exp <= Rate(a[i]).exp
    /\ \E i \in 1..Len(a) : \E n \in 1..Len(b) :
          /\ Metric(b[n]) = Metric(a[i])
          /\ Rate(b[n]).exp < Rate(a[i]).exp

\* C8: the report names the winner from the sign of bd_rate alone:
\* negative, the comparison is better; positive, the reference is better;
\* 0, "No difference".  bd_rate is negative exactly when the log-rate of
\* the comparison, averaged over the common metric range, is below that
\* of the reference; between two curves of at least two points, positive
\* rates and the same distinct finite metric values, it is negative when
\* the comparison has the lower rate and positive when the reference has.
C8_WinnerBySign ==
    pc = "done" =>
        /\ (bd.val.man < 0) = (winner_msg = "comparison is better")
        /\ (bd.val.man > 0) = (winner_msg = "reference is better")
        /\ (bd.val.man = 0) = (winner_msg = "No difference")
        /\ (bd.val.man < 0) = (loc.interpolated /\ loc.avg_exp_diff < 0)
        /\ (bd.val.man > 0) = (loc.interpolated /\ loc.avg_exp_diff > 0)
        /\ (loc.interpolated /\ loc.avg_exp_diff < 0) => loc.int_v2 < loc.int_v1
        /\ (ProperCurve(in1) /\ ProperCurve(in2)
               /\ LowerRateAtEqualDistortion(in1, in2)) => bd.val.man < 0
        /\ (ProperCurve(in1) /\ ProperCurve(in2)
               /\ LowerRateAtEqualDistortion(in2, in1)) => bd.val.man > 0

\* A comparison of three points, its rate below the reference's at one
\* metric value and equal at the others, was reported as better.
C8_Witness ==
    /\ pc = "done"
    /\ Len(in1) = 3 /\ ProperCurve(in1)
    /\ LowerRateAtEqualDistortion(in1, in2)
    /\ VaryingRates(in2)
    /\ bd.val.man < 0
    /\ winner_msg = "comparison is better"

\* The metric values of the list s after the step that replaces the
\* infinite ones.
ClampedList(s) ==
    [i \in 1..Len(s) |-> IF Metric(s[i]) = Inf THEN ClampValue ELSE Metric(s[i])]

\* The call got as far as the two lists metric1 and metric2.
MetricsRead == Called /\ loc.metric1 # <<>>

HasInf(c) == \E i \in 1..Len(c) : Metric(c[i]) = Inf

\* C21: every distortion value equal to +infinity is replaced by 100.0, and
\* no other value is changed; the overlap interval [lo, hi] is computed
\* from the replaced values, and so are the lists that are interpolated.
C21_InfiniteClamped ==
    MetricsRead =>
        /\ loc.metric1 = ClampedList(frame.set1)
        /\ loc.metric2 = ClampedList(frame.set2)
        /\ loc.min_int = RangeLo(in1, in2)
        /\ loc.max_int = RangeHi(in1, in2)
        /\ loc.max_int # Inf /\ loc.min_int # Inf

\* A curve with an infinite and a finite metric value was interpolated, the
\* infinite value as 100.0 at the upper end of the interval.
C21_Witness ==
    /\ pc = "done"
    /\ HasInf(in1) /\ ~FiniteMetrics(in2) /\ Len(in1) = 2
    /\ \E i \in 1..Len(in1) : Metric(in1[i]) < ClampValue
    /\ loc.interpolated
    /\ loc.max_int = ClampValue

Ascending(l) == \A i \in 1..(Len(l) - 1) : l[i] <= l[i + 1]

\* The call got as far as pchip_interpolate.
ReachedInterpolation == Called /\ loc.overlap

\* C22 as the specification states it: the distortion list handed to the
\* interpolant for each curve is in ascending order, and its first and last
\* elements are the minimum and the maximum used for the overlap interval,
\* also when an infinite value was replaced by 100.0 in a curve that has
\* finite values above 100.0.
C22_AscendingAtInterpolation ==
    ReachedInterpolation =>
        /\ Ascending(loc.metric1) /\ Ascending(loc.metric2)
        /\ loc.metric1[1] = MinOf(loc.metric1)
        /\ loc.metric1[Len(loc.metric1)] = MaxOf(loc.metric1)
        /\ loc.metric2[1] = MinOf(loc.metric2)
        /\ loc.metric2[Len(loc.metric2)] = MaxOf(loc.metric2)

\* The same comparison with the two curves exchanged.
Exchanged == BdRateSimpson(in2, in1)

\* 1 + bd_rate / 100, on the scale of the floats.
GrowthFactor(out) == Scale + RDiv(out.val.man, 100)

\* A product of two growth factors is 1 within one percent.
ProductIsOne(a, b) ==
    /\ a.val.exp = 0 /\ b.val.exp = 0
    /\ Abs(GrowthFactor(a) * GrowthFactor(b) - Scale * Scale) <= (Scale * Scale) \div 100

SameNonZeroSign(a, b) ==
    \/ a.val.man > 0 /\ b.val.man > 0
    \/ a.val.man < 0 /\ b.val.man < 0

\* C23 as the specification states it: for every pair of curves that is
\* interpolated, the averaged log-domain difference changes its sign when
\* the curves are exchanged, (1 + bd_rate(A,B)/100) * (1 + bd_rate(B,A)/100)
\* is 1, and the two BD-rates never have the same non-zero sign.
C23_Antisymmetric ==
    (Called /\ loc.interpolated) =>
        LET exchanged == Exchanged
        IN  /\ exchanged.loc.interpolated
            /\ loc.avg_exp_diff = 0 - exchanged.loc.avg_exp_diff
            /\ bd.kind = "return" /\ exchanged.out.kind = "return"
            /\ ProductIsOne(bd, exchanged.out)
            /\ ~SameNonZeroSign(bd, exchanged.out)

\* C15 as the specification states it: on every return path of
\* bd_rate_simpson (result, early 0.0, absorbed failure) both arguments
\* hold the same points in the same order as before the call.
C15_ArgumentsUnchanged ==
    (pc \in {"report", "done"})
        => /\ metric_set1 = in1
           /\ metric_set2 = in2

---------------------------------------------------------------------------
(* Properties of the run of main, under SpecRun.                           *)

\* main has ended, by returning or by an exception.
RunEnded == pc \in {"exit", "crashed"}

IsBdRateLine(line) == line.kind = "bd_rate"

\* The comparison dataset and the metric of each BD-rate line printed.
ReportedPairs ==
    LET lines == SelectSeq(stdout, IsBdRateLine)
    IN  [k \in 1..Len(lines) |-> <<lines[k].with, lines[k].metric>>]

\* Every comparison dataset (the files 2..N) with every metric, in
\* dataset order, then metric order.
ExpectedPairs ==
    LET m == Len(Metrics) IN
    [k \in 1..((Len(csv_files) - 1) * m) |->
        <<((k - 1) \div m) + 2, Metrics[((k - 1) % m) + 1]>>]

\* C16 as the specification states it: in a run over N >= 2 files that
\* have the ten columns, a BD-rate line is printed for every comparison
\* dataset and every one of the 7 metrics, in dataset order and then
\* metric order; no degenerate or failing pair stops the run.
C16_EveryPairReported ==
    (RunEnded /\ Len(csv_files) >= 2
        /\ \A i \in 1..Len(csv_files) : KeySet \subseteq csv_files[i].columns)
        => /\ pc = "exit"
           /\ ReportedPairs = ExpectedPairs

\* File i has a data row and lacks one of the ten columns.
LacksColumn(i) ==
    csv_files[i].rows # <<>> /\ ~(KeySet \subseteq csv_files[i].columns)

\* C17 as the specification states it: a file that lacks a metric column
\* is still read, and the run goes on to report.
C17_MissingColumnTolerated ==
    pc # "read" => /\ error # "KeyError"
                   /\ Len(datasets) = Len(csv_files)

\* C17 as the code has it: read_csv needs all ten columns.  A file with
\* a data row that lacks one of them raises KeyError, which ends the run
\* before anything is printed, the files before it having been read; a
\* file without data rows, or with columns beyond the ten, is read, and
\* the data holds the ten keys with one value per data row.
C17_MissingColumnRaises ==
    /\ pc # "read" =>
          /\ (error = "KeyError") = (\E i \in 1..Len(csv_files) : LacksColumn(i))
          /\ error = "KeyError" =>
                /\ pc = "crashed"
                /\ stdout = <<>>
                /\ Len(datasets) < Len(csv_files)
                /\ LacksColumn(Len(datasets) + 1)
    /\ \A i \in 1..Len(datasets) :
          /\ ~LacksColumn(i)
          /\ DOMAIN datasets[i].data = KeySet
          /\ \A key \in KeySet :
                /\ Len(datasets[i].data[key]) = Len(csv_files[i].rows)
                /\ \A r \in 1..Len(csv_files[i].rows) :
                      datasets[i].data[key][r] = csv_files[i].rows[r][key]

\* The second file has data rows but no column vmaf: the first file was
\* read, then the run ended with KeyError.
C17_Witness ==
    /\ pc = "crashed"
    /\ error = "KeyError"
    /\ Len(csv_files) >= 2
    /\ Len(datasets) = 1
    /\ "vmaf" \notin csv_files[2].columns
    /\ "psnr" \in csv_files[2].columns
    /\ csv_files[1].rows # <<>>

\* The BD-rates of dataset i against the first dataset, metric by metric.
ComputedRates(i) ==
    [m \in MetricSet |->
        BdRateSimpson(Zip(datasets[1].data["output_filesize"], datasets[1].data[m]),
                      Zip(datasets[i].data["output_filesize"], datasets[i].data[m])).out.val]

\* The rows of a run over the datasets: for each comparison the row of the
\* reference, its seven BD-rate fields 0, then the row of the comparison
\* dataset with its computed BD-rates.
ExpectedRows ==
    [k \in 1..(2 * (Len(datasets) - 1)) |->
        IF k % 2 = 1
        THEN BdRow(datasets[1].label,
                   CalculateAverageEncodeTime(datasets[1].data).val, ZeroRates)
        ELSE BdRow(datasets[k \div 2 + 1].label,
                   CalculateAverageEncodeTime(datasets[k \div 2 + 1].data).val,
                   ComputedRates(k \div 2 + 1))]

\* C26 as the specification states it: a comparison run over N >= 2
\* datasets writes 2 * (N - 1) rows to bd_vs_time.csv, for each comparison
\* i first the row of the reference dataset with seven BD-rate fields of 0,
\* then the row of comparison dataset i with its computed BD-rates.
C26_TwoRowsPerComparison ==
    (RunEnded /\ Len(csv_files) >= 2 /\ Len(datasets) = Len(csv_files))
        => /\ pc = "exit"
           /\ bd_vs_time = [exists |-> TRUE, lines |-> <<Headers>> \o ExpectedRows]

---------------------------------------------------------------------------
(* Properties of calc_some_scores, under SpecScores.                       *)

\* C9: calc_some_scores on an empty list fails with an exception that
\* leaves the function (ZeroDivisionError in metrics.py, StatisticsError
\* in scripts/metrics.py); it never returns statistics.
C9_EmptySeriesRaises ==
    (score_list = <<>> /\ pc # "aggregate")
        => /\ scores.kind = "raise"
           /\ pc \in {"raised", "raised_statistics"}

\* metrics.py was given an empty list and raised.
C9_Witness ==
    /\ pc = "raised"
    /\ score_list = <<>>
    /\ scores = Raised("ZeroDivisionError")

\* The harmonic mean as the specification defines it, for a series in
\* which no sample is 0.
HarmonicMeanOf(series) ==
    LET pos == SelectSeq(series, IsPositive)
        rest == SelectSeq(series, IsNotPositive)
    IN  IF pos = <<>> THEN FracOf(0)
        ELSE FracDiv(FracOf(Len(pos)),
                     FracSub(SumReciprocals(pos), SumReciprocals(rest)))

\* C10 as the specification states it: for every non-empty series
\* calc_some_scores of metrics.py gives a harmonic mean, the number of
\* samples > 0 divided by (the sum of reciprocals of the samples > 0
\* minus that of the samples <= 0), and 0 when no sample is > 0.
C10_HarmonicMean ==
    (pc \in {"raised", "aggregated"} /\ score_list # <<>>)
        => /\ scores.kind = "return"
           /\ scores.harmonic_mean = HarmonicMeanOf(score_list)

\* The members of a series.
Members(series) == {series[i] : i \in 1..Len(series)}

\* The element at the 0-based index floor(N * 0.1) of the sorted series.
NearestRank(series) == Sorted(series)[(Len(series) \div 10) + 1]

\* The 11th of the 99 cut points that divide the sorted series into 100
\* parts of equal probability, interpolated between two neighbours (and
\* extrapolated past the ends of a short series).
InterpolatedCut(series) ==
    LET data == Sorted(series)
        n == Len(series)
        at == 11 * (n + 1)
        below == at \div 100
        j == IF below < 1 THEN 1 ELSE IF below > n - 1 THEN n - 1 ELSE below
    IN  Frac(data[j] * 100 + (data[j + 1] - data[j]) * (at - 100 * j), 100)

\* C11 as the specification states it: every calc_some_scores of the
\* repository reports as 10th percentile the element at the 0-based index
\* floor(N * 0.1) of the sorted series, a member of the series.
C11_NearestRankEverywhere ==
    (pc \in {"aggregated", "aggregated_statistics"})
        => /\ scores.percentile_10th = FracOf(NearestRank(score_list))
           /\ scores.percentile_10th.den = 1
           /\ scores.percentile_10th.num \in Members(score_list)

\* C11 as the code has it: calc_some_scores of metrics.py reports the
\* element at the 0-based index floor(N * 0.1) of the sorted series, a
\* member of the series; calc_some_scores of scripts/metrics.py raises
\* StatisticsError for a series of length 1 and otherwise reports the
\* interpolated 11th of the 99 cut points of statistics.quantiles.
C11_NearestRankAndQuantiles ==
    /\ pc = "aggregated"
          => /\ scores.percentile_10th = FracOf(NearestRank(score_list))
             /\ scores.percentile_10th.num \in Members(score_list)
    /\ pc = "aggregated_statistics"
          => /\ Len(score_list) >= 2
             /\ scores.percentile_10th = InterpolatedCut(score_list)
    /\ pc = "raised_statistics" => Len(score_list) < 2

\* metrics.py reported the second smallest of ten samples, which is not
\* the smallest.
C11_Witness ==
    /\ pc = "aggregated"
    /\ Len(score_list) = 10
    /\ Sorted(score_list)[1] < Sorted(score_list)[2]
    /\ scores.percentile_10th = FracOf(Sorted(score_list)[2])

\* sum(x ** 2 for x in series)
RECURSIVE SumOfSquares(_)
SumOfSquares(series) ==
    IF series = <<>> THEN 0
    ELSE series[1] * series[1] + SumOfSquares(Tail(series))

\* N * sum(x^2) - (sum x)^2, which is N^2 times the population variance.
ScaledVariance(series) ==
    Len(series) * SumOfSquares(series) - SumOf(series) * SumOf(series)

\* s, a number of thousandths, is within two thousandths of
\* sqrt(ScaledVariance / divisor).
IsRootOf(s, series, divisor) ==
    LET low == IF s > 2 THEN s - 2 ELSE 0
        v == ScaledVariance(series) * Scale * Scale
    IN  low * low * divisor <= v /\ v <= (s + 2) * (s + 2) * divisor

\* C12 as the specification states it: every calc_some_scores of the
\* repository reports the population standard deviation, with divisor N,
\* also for a series of length 1.
C12_PopulationEverywhere ==
    LET n == Len(score_list) IN
    /\ (pc \in {"aggregated", "aggregated_statistics"})
          => IsRootOf(scores.std_dev, score_list, n * n)
    /\ (n = 1 /\ pc # "aggregate") => scores.kind = "return"

\* C12 as the code has it: calc_some_scores of metrics.py reports the
\* population standard deviation sqrt(sum((x - average)^2) / N), which is
\* 0 for a series of length 1; calc_some_scores of scripts/metrics.py
\* reports the sample standard deviation, with divisor N - 1, and raises
\* StatisticsError for a series of length 1.
C12_PopulationAndSample ==
    LET n == Len(score_list) IN
    /\ pc = "aggregated"
          => /\ IsRootOf(scores.std_dev, score_list, n * n)
             /\ n = 1 => scores.std_dev = 0
    /\ pc = "aggregated_statistics"
          => /\ n >= 2
             /\ IsRootOf(scores.std_dev, score_list, n * (n - 1))
    /\ (n = 1 /\ pc = "raised_statistics") => scores = Raised("StatisticsError")

\* metrics.py reported the standard deviation 3 of two samples -2 and 4,
\* whose sample standard deviation is above 4.
C12_Witness ==
    /\ pc = "aggregated"
    /\ score_list = <<-2, 4>>
    /\ scores.std_dev = 3 * Scale

\* Every sample of the series is c.
ConstantSeries(series, c) == \A i \in 1..Len(series) : series[i] = c

SwapAt(series, i) ==
    [series EXCEPT ![i] = series[i + 1], ![i + 1] = series[i]]

Aggregated == pc \in {"raised", "aggregated"} /\ score_list # <<>>

HasPositiveSample(series) == \E i \in 1..Len(series) : series[i] > 0
HasZeroSample(series) == \E i \in 1..Len(series) : series[i] = 0

\* C24: on a non-empty series with at least one sample > 0 and at least one
\* sample equal to 0, calc_some_scores raises ZeroDivisionError instead of
\* returning statistics; on a series with zeros and no sample > 0 it
\* returns, with harmonic_mean = 0.
C24_ZeroSampleRaises ==
    (Aggregated /\ HasZeroSample(score_list)) =>
        IF HasPositiveSample(score_list)
        THEN scores = Raised("ZeroDivisionError") /\ pc = "raised"
        ELSE /\ scores.kind = "return"
             /\ scores.harmonic_mean = FracOf(0)
             /\ pc = "aggregated"

\* A series with a zero after a positive sample raised.
C24_Witness ==
    /\ Aggregated /\ Len(score_list) >= 2
    /\ score_list[1] > 0 /\ HasZeroSample(score_list)
    /\ scores = Raised("ZeroDivisionError")

---------------------------------------------------------------------------
(* Properties of the writers of CSV files, under SpecCsv.                  *)

\* The data rows of the calls of write_stats on the file path, in call
\* order.
RECURSIVE StatsRowsOf(_, _)
StatsRowsOf(cs, path) ==
    IF cs = <<>> THEN <<>>
    ELSE IF Head(cs).fn = "write_stats" /\ CsvPath(Head(cs).name) = path
         THEN <<Head(cs).row>> \o StatsRowsOf(Tail(cs), path)
         ELSE StatsRowsOf(Tail(cs), path)

\* The data rows of the calls of bdrate_vs_time_csv, in call order.
RECURSIVE BdRowsOf(_)
BdRowsOf(cs) ==
    IF cs = <<>> THEN <<>>
    ELSE IF Head(cs).fn = "bdrate_vs_time_csv"
         THEN <<Head(cs).row>> \o BdRowsOf(Tail(cs))
         ELSE BdRowsOf(Tail(cs))

\* A file that is the header line followed by the rows, or that does not
\* exist when there are no rows.
HeaderThenRows(file, header, rows) ==
    IF rows = <<>> THEN file = NoFile
    ELSE file = [exists |-> TRUE, lines |-> <<header>> \o rows]

\* C25: starting without the output file, after n >= 1 calls of
\* write_stats (of bdrate_vs_time_csv) on the same file, the file is one
\* header line, as its first line, followed by the n data rows in call
\* order; holding after every call, no call rewrites or removes a row.
C25_HeaderThenRows ==
    pc = "csv" =>
        /\ \A path \in StatsPaths :
              HeaderThenRows(stats_csv[path], Keys, StatsRowsOf(calls, path))
        /\ HeaderThenRows(bd_vs_time, Headers, BdRowsOf(calls))

\* Three calls of write_stats on out.csv, under both spellings of its
\* name and with rows that differ: the file has four lines.
C25_Witness ==
    /\ pc = "csv"
    /\ Len(calls) = MaxCalls
    /\ \A i \in 1..Len(calls) : calls[i].fn = "write_stats"
    /\ calls[1].name = "out" /\ calls[2].name = "out.csv" /\ calls[3].name = "out"
    /\ calls[1].row # calls[2].row
    /\ Len(stats_csv["out.csv"].lines) = MaxCalls + 1
    /\ stats_csv["out.csv"].lines[1] = Keys

---------------------------------------------------------------------------
(* Properties of VideoEnc, under SpecEnc.                                  *)

\* The executable of each encoder name that a front end accepts.
ExecutableOf(encoder) ==
    CASE encoder = "x264" -> "x264"
      [] encoder = "x265" -> "x265"
      [] encoder = "svtav1" -> "SvtAv1EncApp"
      [] encoder = "aomenc" -> "aomenc"
      [] encoder = "vpxenc" -> "vpxenc"

\* The extension of each encoder name.
ExtensionOf(encoder) ==
    IF encoder = "x264" THEN ".264"
    ELSE IF encoder = "x265" THEN ".265"
    ELSE IF encoder = "vvenc" THEN ".266"
    ELSE ".ivf"

\* C27 as the specification states it: for every encoder name accepted by
\* the front ends (x264, x265, svtav1, aomenc, vpxenc) the first element
\* of the command is the executable of that encoder, and the output path
\* ends in .264 for x264, .265 for x265, .266 for vvenc and .ivf
\* otherwise: no accepted name is run as a different encoder.
C27_SameEncoder ==
    pc = "constructed" =>
        /\ EndsWith(video_enc.dst_pth, ExtensionOf(video_enc.encoder))
        /\ video_enc.encoder \in StatsEncoders \cup EncodeEncoders =>
              video_enc.enc_cmd[1] = ExecutableOf(video_enc.encoder)

---------------------------------------------------------------------------
(* Properties of the scalar transforms, under SpecTransforms.              *)

ButterCalled == pc = "done" /\ Len(arg) = 1
XpsnrCalled == pc = "done" /\ Len(arg) = 3

\* 100.0, in units of 1 / Fine.
Hundred == 100 * Fine

\* C18: butter_to_vbutter(0.0) returns exactly 100.0, and it does so by the
\* special-case branch: the test d != 0.0 fails, so the logarithm is not
\* evaluated.
C18_ZeroDistanceIsHundred ==
    (ButterCalled /\ arg[1] = 0) =>
        /\ result = Returned(Hundred)
        /\ ~DistanceNotZero(arg[1])

C18_Witness == ButterCalled /\ arg = <<0>> /\ result = Returned(Hundred)

RoundTripTolerance == Fine \div 100

\* C20: the weighted XPSNR of three equal plane values y = u = v = p is p
\* (within the tolerance of the arithmetic): each plane is converted to an
\* MSE, (4 * mse_y + mse_u + mse_v) / 6 is formed and converted back.
C20_EqualPlanesRoundTrip ==
    (XpsnrCalled /\ arg[1] = arg[2] /\ arg[2] = arg[3]) =>
        /\ result.kind = "return"
        /\ Abs(result.val - 10 * arg[1]) <= RoundTripTolerance

C20_Witness ==
    /\ XpsnrCalled /\ arg[1] = arg[2] /\ arg[2] = arg[3] /\ arg[1] > 0
    /\ result.kind = "return"
    /\ Abs(result.val - 10 * arg[1]) <= RoundTripTolerance

=====
